---- MODULE Spec2Model ----
(***************************************************************************)
(* Door-camera attendance: the event cooldown (post_event), the direction  *)
(* tracker (DirectionTracker) and the monitoring loop (monitor) of         *)
(* camera_monitor.py, and the matching loops of                            *)
(* face_recognition_service.py.                                            *)
(*                                                                         *)
(* Units: the cooldown sees time.time() in whole seconds (now), the loop   *)
(* sees it in milliseconds (clock); normalised horizontal positions and    *)
(* confidences are hundredths; cosine scores are thousandths.              *)
(***************************************************************************)
EXTENDS Integers, Sequences, FiniteSets, TLC

\* ------------------------------------------------------------------ bounds
MaxTime    == 17   \* the clock stops advancing here
MaxThreads == 2    \* dispatch threads in flight at once
MaxK       == 3    \* largest window capacity the tracker is loaded with
MaxFaces   == 3    \* most faces the detector reports in one image
MaxHandles == 3    \* VideoCapture objects one run of monitor creates
MaxFiles   == 3    \* most samples of one batch enrollment
MaxReads   == 4    \* frames the camera delivers to one run of monitor

\* --------------------------------------------------------------- constants
COOLDOWN_SECS     == 10
DIRECTION_FRAMES  == 3
MIN_DISPLACEMENT  == 12   \* 0.12 of the frame width
COSINE_THRESHOLD  == 363  \* 0.363
ENCODING_BYTES    == 1024 \* 128 float64
FRAME_INTERVAL_MS == 400
CONFIDENCE_THRESH == 50   \* 0.50
RECONNECT_SLEEP_MS == 2000  \* time.sleep(2)
THROTTLE_SLEEP_MS  == 50    \* time.sleep(0.05)
LAP_VAR_MIN    == 30    \* if lap_var < 30
LAP_VAR_MAX    == 8000  \* if lap_var > 8000
LIVE_FACE_CONF == 70    \* if confidence < 0.7
LIVE_BASELINE  == 85    \* max(0.85, confidence)

\* ------------------------------------------------------------------- state
VARIABLES
  now,              \* time.time() as seen by the process
  last_event_time,  \* studentId -> (type, timestamp) | NoRecord
  threads,          \* the _post threads started and not yet finished
  pe,               \* the most recent post_event call: its arguments, the
                    \* time, lastEmit for its pair before it ran, its outcome
  lastEmit,         \* history: studentId -> type -> time of the last
                    \* non-suppressed emission | NoTime
  K,                \* the value of DIRECTION_FRAMES the module runs with
  flip,             \* DirectionTracker.flip
  positions,        \* DirectionTracker.positions: studentId -> deque
  upd,              \* the most recent update call: id, the window it
                    \* evaluated (after the append) and what it returned
  ncalls,           \* history: update calls per studentId, counted up to K
  users,            \* db.users in collection order: _id, faceEncoding
  req,              \* the identification request: the faces the detector
                    \* finds in its image and its expected_user_ids field
  resp,             \* the response to it | NoResp while it is pending;
                    \* probe: the face /identify-face picked, else 0
  sent,             \* history: requests the last finished _post thread
                    \* made to the backend (0 before any has run)
  pc,               \* where monitor is: "off" when it is not running
  exit_code,        \* the exit status of the process, -1 while it runs
  health,           \* what the /health probe of monitor came to
  clock,            \* time.time() in milliseconds
  last_check,       \* monitor's last_check, in milliseconds
  cap,              \* monitor's cap: the number of the VideoCapture object
  held,             \* the VideoCapture objects that hold the camera
  reads,            \* history: frames cap.read() has delivered
  todo,             \* the matches of the frame the for loop has yet to do
  calls,            \* history: when the last identification call and the
                    \* one before it were started | NoTime
  ereq,             \* the enrollment request: endpoint, user_id, the
                    \* uploaded files and what fails outside the handler
  eresp             \* the response to it | NoEnroll while it is pending;
                    \* liveness: what the gate returned for the first
                    \* file; used: the samples in the encoding; written:
                    \* the encoding handed to update_one

dedupVars   == <<now, last_event_time, threads, pe, lastEmit, sent>>
dedupRest   == <<last_event_time, threads, pe, lastEmit, sent>>
monitorVars == <<pc, exit_code, health, clock, last_check, cap, held, reads,
                 todo, calls>>
trackerVars == <<K, flip, positions, upd, ncalls>>
matchVars   == <<users, req, resp>>
enrollVars  == <<ereq, eresp>>

StudentIds == {"s1", "s2"}
EventTypes == {"ENTRY", "EXIT"}
TimeSteps  == {5, 6}
NoRecord   == [type |-> "none", ts |-> -1]
NoTime     == -1
NoCall     == [id |-> "none", type |-> "none", at |-> -1, prev |-> -1,
               suppressed |-> FALSE]

\* ------------------------------------------------------- EventDeduplicator
\* Faulty variants of Suppressed: the event type is not compared; the cooldown
\* bound is inclusive.
SuppressedAnyType(last, event_type, t) ==
  /\ last # NoRecord
  /\ t - last.ts < COOLDOWN_SECS

SuppressedInclusive(last, event_type, t) ==
  /\ last # NoRecord
  /\ last.type = event_type
  /\ t - last.ts <= COOLDOWN_SECS

\* if last and last[0] == event_type and now - last[1] < COOLDOWN_SECS: return
Suppressed(last, event_type, t) ==
  /\ last # NoRecord
  /\ last.type = event_type
  /\ t - last.ts < COOLDOWN_SECS

\* post_event(student_id, _, event_type, _, _): the cooldown check, the
\* record write and the start of the dispatch thread.
post_event(student_id, event_type) ==
  LET last == last_event_time[student_id]
      sup  == Suppressed(last, event_type, now)
  IN  /\ sup \/ Len(threads) < MaxThreads
      /\ pe' = [id |-> student_id, type |-> event_type, at |-> now,
                prev |-> lastEmit[student_id][event_type],
                suppressed |-> sup]
      /\ IF sup
           THEN UNCHANGED <<last_event_time, threads, lastEmit>>
           ELSE /\ last_event_time' =
                     [last_event_time EXCEPT
                        ![student_id] = [type |-> event_type, ts |-> now]]
                /\ threads' =
                     Append(threads, [studentId |-> student_id,
                                      type |-> event_type])
                /\ lastEmit' =
                     [lastEmit EXCEPT ![student_id][event_type] = now]
      /\ UNCHANGED <<now, sent>>

\* What the backend does with a request: resp.ok, not resp.ok, or
\* requests.post raises.
SinkOutcomes == {"accepted", "rejected", "exception"}

\* Faulty variant of Requests: a request that did not get through is made
\* once more.
RequestsRetry(outcome) == IF outcome = "accepted" THEN 1 ELSE 2

\* The requests.post calls one run of _post makes: the one in its try
\* block, whatever comes of it.
Requests(outcome) == 1

\* Faulty variant of PostThread: a request that did not get through takes
\* back the cooldown record of its student.
PostThreadRollback ==
  /\ threads # <<>>
  /\ \E i \in 1..Len(threads), outcome \in SinkOutcomes :
       /\ threads' = [j \in 1..(Len(threads) - 1) |->
                        IF j < i THEN threads[j] ELSE threads[j + 1]]
       /\ sent' = Requests(outcome)
       /\ last_event_time' =
            IF outcome = "accepted" THEN last_event_time
            ELSE [last_event_time EXCEPT ![threads[i].studentId] = NoRecord]
  /\ UNCHANGED <<now, pe, lastEmit>>

\* _post: one thread makes its request to the backend and ends, whatever
\* the outcome; the exception is caught inside the thread.
PostThread ==
  /\ threads # <<>>
  /\ \E i \in 1..Len(threads), outcome \in SinkOutcomes :
       /\ threads' = [j \in 1..(Len(threads) - 1) |->
                        IF j < i THEN threads[j] ELSE threads[j + 1]]
       /\ sent' = Requests(outcome)
  /\ UNCHANGED <<now, last_event_time, pe, lastEmit>>

\* Wall-clock time passes between calls.
Tick ==
  /\ \E d \in TimeSteps : now + d <= MaxTime /\ now' = now + d
  /\ UNCHANGED <<last_event_time, threads, pe, lastEmit, sent>>

PostEvent == \E s \in StudentIds, e \in EventTypes : post_event(s, e)

\* -------------------------------------------------------- DirectionTracker
FrameWidths == {200, 400}
\* Normalised face centres, in hundredths of the frame width: s1 is seen at
\* every one of them, s2 only at the two edges of the frame.
Positions   == {10, 40, 44, 46, 50, 52, 90}
PositionsOf(s) == IF s = "s1" THEN Positions ELSE {10, 90}
NoUpdate    == [id |-> "none", win |-> <<>>, ret |-> "None"]

Abs(x) == IF x < 0 THEN -x ELSE x

\* normalized = face_center_x / frame_width
Normalize(face_center_x, frame_width) == (face_center_x * 100) \div frame_width

\* Faulty variant of DequeAppend: a full window is restarted instead of slid.
DequeAppendRestart(q, x) == IF Len(q) >= K THEN <<x>> ELSE Append(q, x)

\* Faulty variant of DequeAppend: nothing is evicted.
DequeAppendNoEvict(q, x) == Append(q, x)

\* deque(maxlen=DIRECTION_FRAMES).append
DequeAppend(q, x) == IF Len(q) >= K THEN Append(Tail(q), x) ELSE Append(q, x)

\* Faulty variant of WindowFull: ready one sample early.
WindowFullEarly(q) == ~(Len(q) < K - 1)

\* not (len(self.positions[student_id]) < DIRECTION_FRAMES)
WindowFull(q) == ~(Len(q) < K)

\* not (abs(delta) < 0.12)
EnoughMovement(delta) == ~(Abs(delta) < MIN_DISPLACEMENT)

\* Faulty variant of Direction: the orientation flag is ignored.
DirectionNoFlip(delta) == IF delta > 0 THEN "ENTRY" ELSE "EXIT"

\* moving_right = delta > 0; if self.flip: moving_right = not moving_right
Direction(delta) ==
  LET moving_right == IF flip THEN ~(delta > 0) ELSE delta > 0
  IN  IF moving_right THEN "ENTRY" ELSE "EXIT"

\* What update returns for the window q it finds after the append.
UpdateResult(q) ==
  IF ~WindowFull(q) THEN "None"
  ELSE LET delta == q[Len(q)] - q[1]
       IN  IF ~EnoughMovement(delta) THEN "None" ELSE Direction(delta)

\* DirectionTracker.update(student_id, face_center_x, frame_width)
update(student_id, face_center_x, frame_width) ==
  LET normalized == Normalize(face_center_x, frame_width)
      q          == DequeAppend(positions[student_id], normalized)
      ret        == UpdateResult(q)
  IN  /\ positions' = [positions EXCEPT
                         ![student_id] = IF ret = "None" THEN q ELSE <<>>]
      /\ upd' = [id |-> student_id, win |-> q, ret |-> ret]
      /\ ncalls' = [ncalls EXCEPT
                      ![student_id] = IF @ < K THEN @ + 1 ELSE @]
      /\ UNCHANGED <<K, flip>>

Update ==
  \E s \in StudentIds, w \in FrameWidths :
    \E p \in PositionsOf(s) : update(s, (p * w) \div 100, w)

InitTracker ==
  /\ K \in 1..MaxK
  /\ flip \in BOOLEAN
  /\ positions = [s \in StudentIds |-> <<>>]
  /\ upd = NoUpdate
  /\ ncalls = [s \in StudentIds |-> 0]

\* ------------------------------------------------------------- MatchEngine
UserIds   == {"u1", "u2"}
ObjectIds == UserIds \cup {"u9"}      \* well-formed ids; u9 is not enrolled
Dirs      == 0..2                     \* directions of the embedding vectors
NoEncoding == [size |-> 0, norm |-> 0, dir |-> -1]   \* no faceEncoding field
NoList     == <<"None">>                              \* field not sent
NoResp     == [endpoint |-> "none", status |-> 0, matches |-> <<>>,
               probe |-> 0]

\* The cosine of two unit directions, by the angle between them.
CosineOfAngle == <<1000, COSINE_THRESHOLD, COSINE_THRESHOLD - 1>>
Cosine(d1, d2) == CosineOfAngle[Abs(d1 - d2) + 1]

\* Stored encodings: a 128-float64 vector of some direction, a zero vector,
\* a vector stored with another size, or none.
Encodings ==
  {[size |-> ENCODING_BYTES, norm |-> 1, dir |-> d] : d \in Dirs}
    \cup {[size |-> ENCODING_BYTES, norm |-> 0, dir |-> 0],
          [size |-> 512, norm |-> 1, dir |-> 0],
          NoEncoding}

\* A detected face of a decodable image: whether alignCrop/feature succeed
\* on it (ok) and the embedding they give.
Faces ==
  {[ok |-> TRUE, norm |-> 1, dir |-> d] : d \in Dirs}
    \cup {[ok |-> TRUE, norm |-> 0, dir |-> 0],
          [ok |-> FALSE, norm |-> 0, dir |-> 0]}

\* expected_user_ids as its comma-separated tokens.
AllowLists ==
  {NoList, <<"">>, <<"zz">>, <<"u1">>, <<"u1", "u2">>, <<"u2", "zz">>,
   <<"u9">>}

SeqsUpTo(S, n) == UNION {[1..k -> S] : k \in 0..n}

match_score(emb1, emb2) ==
  IF emb1.norm = 0 \/ emb2.norm = 0
    THEN [cosine_score |-> 0, is_match |-> FALSE]
    ELSE LET cosine_score == Cosine(emb1.dir, emb2.dir)
         IN  [cosine_score |-> cosine_score,
              is_match |-> cosine_score >= COSINE_THRESHOLD]

\* if expected_user_ids: (a non-empty string)
Truthy(expected_user_ids) ==
  expected_user_ids # NoList /\ expected_user_ids # <<"">>

\* ids_list: the tokens ObjectId() accepts
IdsList(expected_user_ids) ==
  LET Accept(uid) == uid # "" /\ uid \in ObjectIds
  IN  SelectSeq(expected_user_ids, Accept)

\* db.users.find(query): all users with a faceEncoding, restricted to
\* ids_list when the list is given and ids_list is not empty.
FindUsers(expected_user_ids) ==
  LET ids_list   == IF Truthy(expected_user_ids)
                      THEN IdsList(expected_user_ids) ELSE <<>>
      InQuery(u) == /\ u.faceEncoding # NoEncoding
                    /\ (ids_list # <<>> =>
                          \E i \in 1..Len(ids_list) : ids_list[i] = u._id)
  IN  SelectSeq(users, InQuery)

\* Faulty variant of SizeOk: the stored size is not checked.
SizeAny(raw) == raw # NoEncoding

\* if len(raw) == 1024
SizeOk(raw) == raw.size = ENCODING_BYTES

\* db_embeddings: the pool entries whose stored size is right
ParseEmbeddings(pool) ==
  LET Keep(u) == SizeOk(u.faceEncoding)
  IN  SelectSeq(pool, Keep)

\* Faulty variant of Better: a later candidate of equal score replaces the best.
BetterOrEqual(result, best_score) ==
  result.is_match /\ result.cosine_score >= best_score

\* result['is_match'] and result['cosine_score'] > best_score
Better(result, best_score) ==
  result.is_match /\ result.cosine_score > best_score

\* for db_user in db_embeddings: ... ; best starts as (None, 0)
RECURSIVE MatchLoop(_, _, _, _)
MatchLoop(db_embeddings, i, emb, best) ==
  IF i > Len(db_embeddings) THEN best
  ELSE LET result == match_score(db_embeddings[i].faceEncoding, emb)
       IN  MatchLoop(db_embeddings, i + 1, emb,
                     IF Better(result, best.score)
                       THEN [user |-> db_embeddings[i]._id,
                             score |-> result.cosine_score]
                       ELSE best)

BestMatch(db_embeddings, emb) ==
  MatchLoop(db_embeddings, 1, emb, [user |-> "None", score |-> 0])

\* for face in faces: try ... except: continue
RECURSIVE FaceLoop(_, _, _, _)
FaceLoop(faces, i, db_embeddings, matches) ==
  IF i > Len(faces) THEN matches
  ELSE LET best == IF faces[i].ok
                     THEN BestMatch(db_embeddings, faces[i])
                     ELSE [user |-> "None", score |-> 0]
       IN  FaceLoop(faces, i + 1, db_embeddings,
                    IF best.user # "None"
                      THEN Append(matches, [userId |-> best.user,
                                            confidence |-> best.score,
                                            box |-> i])
                      ELSE matches)

\* POST /identify-group
identify_group_endpoint(faces, expected_user_ids) ==
  IF Len(faces) = 0 THEN [status |-> 200, matches |-> <<>>]
  ELSE LET db_embeddings == ParseEmbeddings(FindUsers(expected_user_ids))
       IN  IF db_embeddings = <<>>
             THEN [status |-> 200, matches |-> <<>>]
             ELSE [status |-> 200,
                   matches |-> FaceLoop(faces, 1, db_embeddings, <<>>)]

\* POST /identify-multiple-faces
identify_multiple_faces_endpoint(faces, expected_user_ids) ==
  IF Len(faces) = 0 THEN [status |-> 200, matches |-> <<>>]
  ELSE LET db_embeddings == ParseEmbeddings(FindUsers(expected_user_ids))
       IN  [status |-> 200,
            matches |-> FaceLoop(faces, 1, db_embeddings, <<>>)]

\* POST /identify-face, with `best` the index of the face detect_face picks
\* (the one of highest detector confidence) and `raised` what get_embedding
\* raises when alignCrop/feature fail on it: a ValueError is answered as
\* "not identified", anything else as a 500.
identify_face_endpoint(faces, best, raised) ==
  IF Len(faces) = 0 THEN [status |-> 200, matches |-> <<>>]
  ELSE IF ~faces[best].ok
    THEN [status |-> IF raised = "ValueError" THEN 200 ELSE 500,
          matches |-> <<>>]
  ELSE LET found == BestMatch(ParseEmbeddings(FindUsers(NoList)),
                              faces[best])
       IN  [status |-> 200,
            matches |-> IF found.user # "None"
                          THEN <<[userId |-> found.user,
                                  confidence |-> found.score,
                                  box |-> best]>>
                          ELSE <<>>]

\* Faulty variant of Respond: the encoding of the first matched user is
\* dropped from the store.
RespondStoring(endpoint, r, probe) ==
  /\ resp = NoResp
  /\ resp' = [endpoint |-> endpoint, status |-> r.status,
               matches |-> r.matches, probe |-> probe]
  /\ users' = [k \in 1..Len(users) |->
                 IF r.matches # <<>> /\ users[k]._id = r.matches[1].userId
                   THEN [users[k] EXCEPT !.faceEncoding = NoEncoding]
                   ELSE users[k]]
  /\ UNCHANGED req

Respond(endpoint, r, probe) ==
  /\ resp = NoResp
  /\ resp' = [endpoint |-> endpoint, status |-> r.status,
               matches |-> r.matches, probe |-> probe]
  /\ UNCHANGED <<users, req>>

IdentifyGroup ==
  Respond("identify-group",
          identify_group_endpoint(req.faces, req.expected_user_ids), 0)

IdentifyMultipleFaces ==
  Respond("identify-multiple-faces",
          identify_multiple_faces_endpoint(req.faces, req.expected_user_ids),
          0)

IdentifyFace ==
  IF Len(req.faces) = 0
    THEN Respond("identify-face",
                 identify_face_endpoint(req.faces, 0, "ValueError"), 0)
    ELSE \E best \in 1..Len(req.faces), raised \in {"ValueError", "Exception"} :
           Respond("identify-face",
                   identify_face_endpoint(req.faces, best, raised), best)

\* ----------------------------------------------------------------- monitor
EMBEDDING_DIM == 128

\* The statements of the while loop monitor can be at.
LoopPcs == {"read", "backoff", "release", "reopen", "throttle", "identify",
            "process"}

NoProbe == [status |-> "pending", embeddingDim |-> 0]
NoCalls == [at |-> NoTime, prev |-> NoTime]

\* GET /health as monitor sees it: a 200 with the embeddingDim the engine
\* runs with, another status, or an exception of requests.get.
Probes ==
  {[status |-> "ok", embeddingDim |-> EMBEDDING_DIM],
   [status |-> "not_ok", embeddingDim |-> 0],
   [status |-> "unreachable", embeddingDim |-> 0]}

\* One entry of the matches list: a dict with userId, confidence and box
\* (x and width, in hundredths of the frame width), or anything else.
Match(s, c, p) == [shape |-> "match", userId |-> s, confidence |-> c,
                   box |-> <<p - 10, 20>>]
OtherEntry == [shape |-> "other", userId |-> "none", confidence |-> 0,
               box |-> <<0, 0>>]

\* The matches lists the engine answers with.
MatchLists ==
  {<<Match("s1", c, p)>> : c \in {49, 50}, p \in {10, 90}}
    \cup {<<Match("s2", 50, 90)>>}
    \cup {<<Match("s1", 50, 10), Match("s1", 50, 90)>>,
          <<OtherEntry>>, <<>>}

\* How one call of identify_faces_in_frame goes: imencode fails, or
\* requests.post raises or times out, or the response is not resp.ok, or
\* its body is not JSON or not a dict, or it is a dict with these matches.
FailureKinds == {"encode_failed", "exception", "timeout", "not_ok",
                 "undecodable", "not_a_dict"}
ServiceReplies ==
  {[kind |-> "ok", matches |-> ml] : ml \in MatchLists}
    \cup {[kind |-> k, matches |-> <<>>] : k \in FailureKinds}

\* How long cap.read() blocks, the throttle sleeps and the call takes.
ReadWaits      == {100}
ThrottleSleeps == {200}
CallWaits      == {0, 300}

\* identify_faces_in_frame: result.get('matches', []) of an OK response,
\* [] after anything its try block catches.
identify_faces_in_frame(reply) ==
  IF reply.kind = "ok" THEN reply.matches ELSE <<>>

\* Faulty variant of Throttled: the interval is not compared.
ThrottledNever(t, last) == FALSE

\* (now - last_check) * 1000 < FRAME_INTERVAL_MS
Throttled(t, last) == (t - last) < FRAME_INTERVAL_MS

\* time.time() moves on by d milliseconds.
TimePasses(d) ==
  /\ clock' = clock + d
  /\ now' = (clock + d) \div 1000

\* Faulty variant of Finally: the handle is not released.
FinallyLeaks(code) ==
  /\ held' = held
  /\ pc' = "done"
  /\ exit_code' = code

\* finally: cap.release()
Finally(code) ==
  /\ held' = held \ {cap}
  /\ pc' = "done"
  /\ exit_code' = code

\* The /health probe at the start of monitor; the best-effort pre-fetch of
\* the expected student ids follows it and changes nothing modelled here.
HealthCheck ==
  /\ pc = "health"
  /\ \E r \in Probes :
       /\ health' = r
       /\ IF r.status = "unreachable"
            THEN pc' = "exit" /\ exit_code' = 1
            ELSE pc' = "open" /\ UNCHANGED exit_code
  /\ UNCHANGED <<clock, last_check, cap, held, reads, todo, calls>>
  /\ UNCHANGED <<dedupVars, trackerVars>>

\* Faulty variant of OpenCamera: the loop is entered with a camera that did
\* not open.
OpenCameraAnyway ==
  /\ pc = "open"
  /\ cap' = cap + 1
  /\ \E opened \in BOOLEAN :
       held' = IF opened THEN held \cup {cap + 1} ELSE held
  /\ pc' = "read"
  /\ UNCHANGED <<exit_code, health, clock, last_check, reads, todo, calls>>
  /\ UNCHANGED <<dedupVars, trackerVars>>

\* cap = cv2.VideoCapture(camera_source); if not cap.isOpened(): sys.exit(1)
OpenCamera ==
  /\ pc = "open"
  /\ cap' = cap + 1
  /\ \E opened \in BOOLEAN :
       IF opened
         THEN held' = held \cup {cap + 1} /\ pc' = "read"
              /\ UNCHANGED exit_code
         ELSE pc' = "exit" /\ exit_code' = 1 /\ UNCHANGED held
  /\ UNCHANGED <<health, clock, last_check, reads, todo, calls>>
  /\ UNCHANGED <<dedupVars, trackerVars>>

\* ret, frame = cap.read(): after a wait the camera delivers a frame, or
\* the read fails; a VideoCapture that did not open delivers nothing.
Read ==
  /\ pc = "read"
  /\ \E d \in ReadWaits, ret \in BOOLEAN :
       /\ IF ret
            THEN /\ cap \in held
                 /\ reads < MaxReads
                 /\ reads' = reads + 1
                 /\ pc' = "throttle"
            ELSE /\ cap < MaxHandles
                 /\ pc' = "backoff"
                 /\ UNCHANGED reads
       /\ TimePasses(d)
  /\ UNCHANGED <<exit_code, health, last_check, cap, held, todo, calls>>
  /\ UNCHANGED <<dedupRest, trackerVars>>

\* Faulty variant of Backoff: a failed read ends the run.
BackoffGivesUp ==
  /\ pc = "backoff"
  /\ Finally(1)
  /\ UNCHANGED <<health, clock, last_check, cap, reads, todo, calls>>
  /\ UNCHANGED <<dedupVars, trackerVars>>

\* if not ret: time.sleep(2)
Backoff ==
  /\ pc = "backoff"
  /\ TimePasses(RECONNECT_SLEEP_MS)
  /\ pc' = "release"
  /\ UNCHANGED <<exit_code, health, last_check, cap, held, reads, todo,
                 calls>>
  /\ UNCHANGED <<dedupRest, trackerVars>>

\* Faulty variant of Release: the handle is kept.
ReleaseSkipped ==
  /\ pc = "release"
  /\ pc' = "reopen"
  /\ UNCHANGED <<exit_code, health, clock, last_check, cap, held, reads,
                 todo, calls>>
  /\ UNCHANGED <<dedupVars, trackerVars>>

\* cap.release()
Release ==
  /\ pc = "release"
  /\ held' = held \ {cap}
  /\ pc' = "reopen"
  /\ UNCHANGED <<exit_code, health, clock, last_check, cap, reads, todo,
                 calls>>
  /\ UNCHANGED <<dedupVars, trackerVars>>

\* cap = cv2.VideoCapture(camera_source); continue.  The source opens or
\* not; the last object this run creates does.
Reopen ==
  /\ pc = "reopen"
  /\ cap' = cap + 1
  /\ \E opened \in BOOLEAN :
       /\ opened \/ cap + 1 < MaxHandles
       /\ held' = IF opened THEN held \cup {cap + 1} ELSE held
  /\ pc' = "read"
  /\ UNCHANGED <<exit_code, health, clock, last_check, reads, todo, calls>>
  /\ UNCHANGED <<dedupVars, trackerVars>>

\* now = time.time(); if (now - last_check) * 1000 < FRAME_INTERVAL_MS:
\* time.sleep(0.05); continue.  Else last_check = now, and the frame is
\* resized for the call.
Throttle ==
  /\ pc = "throttle"
  /\ IF Throttled(clock, last_check)
       THEN /\ \E d \in ThrottleSleeps :
                 d >= THROTTLE_SLEEP_MS /\ TimePasses(d)
            /\ pc' = "read"
            /\ UNCHANGED last_check
       ELSE /\ last_check' = clock
            /\ pc' = "identify"
            /\ UNCHANGED <<clock, now>>
  /\ UNCHANGED <<exit_code, health, cap, held, reads, todo, calls>>
  /\ UNCHANGED <<dedupRest, trackerVars>>

\* matches = identify_faces_in_frame(frame, ...); if not matches: continue.
\* The call is started now and takes some time.
Identify ==
  /\ pc = "identify"
  /\ \E reply \in ServiceReplies, d \in CallWaits :
       LET matches == identify_faces_in_frame(reply)
       IN  /\ TimePasses(d)
           /\ todo' = matches
           /\ pc' = IF matches = <<>> THEN "read" ELSE "process"
  /\ calls' = [at |-> clock, prev |-> calls.at]
  /\ UNCHANGED <<exit_code, health, last_check, cap, held, reads>>
  /\ UNCHANGED <<dedupRest, trackerVars>>

\* Faulty variant of BelowFloor: no confidence is too low.
BelowFloorNever(confidence) == FALSE

\* if m['confidence'] < CONFIDENCE_THRESH: continue
BelowFloor(confidence) == confidence < CONFIDENCE_THRESH

\* One round of for m in matches.  m['confidence'] of an entry that is not
\* such a dict raises, and the exception leaves the loop through finally.
Process ==
  /\ pc = "process"
  /\ LET m == Head(todo)
     IN  IF m.shape # "match"
           THEN /\ Finally(1)
                /\ UNCHANGED <<todo, dedupVars, trackerVars>>
           ELSE /\ IF BelowFloor(m.confidence)
                     THEN UNCHANGED <<dedupVars, trackerVars>>
                     ELSE \E w \in FrameWidths :
                            LET center == m.box[1] + m.box[2] \div 2
                            IN  /\ update(m.userId, (center * w) \div 100, w)
                                /\ IF upd'.ret # "None"
                                     THEN post_event(m.userId, upd'.ret)
                                     ELSE UNCHANGED dedupVars
                /\ todo' = Tail(todo)
                /\ pc' = IF Tail(todo) = <<>> THEN "read" ELSE "process"
                /\ UNCHANGED <<exit_code, held>>
  /\ UNCHANGED <<health, clock, last_check, cap, reads, calls>>

\* except KeyboardInterrupt: the stop signal, wherever the loop is.
Stop ==
  /\ pc \in LoopPcs
  /\ Finally(0)
  /\ UNCHANGED <<health, clock, last_check, cap, reads, todo, calls>>
  /\ UNCHANGED <<dedupVars, trackerVars>>

InitMonitor ==
  /\ pc = "health"
  /\ exit_code = -1
  /\ health = NoProbe
  /\ clock = FRAME_INTERVAL_MS
  /\ last_check = 0
  /\ cap = 0
  /\ held = {}
  /\ reads = 0
  /\ todo = <<>>
  /\ calls = NoCalls

MonitorIdle ==
  /\ pc = "off"
  /\ exit_code = -1
  /\ health = NoProbe
  /\ clock = 0
  /\ last_check = 0
  /\ cap = 0
  /\ held = {}
  /\ reads = 0
  /\ todo = <<>>
  /\ calls = NoCalls

\* -------------------------------------------------------------- enrollment
NoFace      == -1
NoLiveness  == [live |-> FALSE, confidence |-> -1, reason |-> "not run"]
NoEnroll    == [status |-> 0, liveness |-> NoLiveness, used |-> <<>>,
                written |-> NoEncoding]

\* An uploaded image: whether Image.open reads it, the variance of its
\* Laplacian, the confidence of the best face YuNet finds in it (NoFace
\* when it finds none) and the direction of the embedding of that face.
Image(lap, face, dir) ==
  [decodable |-> TRUE, lap_var |-> lap, face |-> face, dir |-> dir]
Undecodable ==
  [decodable |-> FALSE, lap_var |-> 0, face |-> NoFace, dir |-> 0]

Images ==
  {Image(LAP_VAR_MIN, LIVE_FACE_CONF, 0),
   Image(LAP_VAR_MAX, 90, 1),
   Image(LAP_VAR_MIN - 1, 90, 2),
   Image(LAP_VAR_MAX + 1, 90, 2),
   Image(LAP_VAR_MIN - 1, NoFace, 0),
   Image(100, NoFace, 0),
   Image(100, LIVE_FACE_CONF - 1, 2),
   Undecodable}

\* user_id as sent: an enrolled user, a well-formed id of no user, a
\* string ObjectId() rejects.
EnrollIds == {"u1", "u9", "zz"}

\* What fails outside the handler: nothing, cloudinary.uploader.upload, or
\* db.users.update_one.
Faults == {"none", "upload", "db"}

Max(a, b) == IF a > b THEN a ELSE b

\* Faulty variant of detect_liveness: no ceiling on the sharpness.
detect_liveness_no_ceiling(image) ==
  IF image.lap_var < LAP_VAR_MIN
    THEN [live |-> FALSE, confidence |-> 30, reason |-> "Image too blurry"]
  ELSE IF image.face = NoFace
    THEN [live |-> FALSE, confidence |-> 20, reason |-> "No face detected"]
  ELSE IF image.face < LIVE_FACE_CONF
    THEN [live |-> FALSE, confidence |-> image.face,
          reason |-> "Low face detection confidence"]
  ELSE [live |-> TRUE, confidence |-> Max(LIVE_BASELINE, image.face),
        reason |-> "Live face detected"]

\* detect_liveness(image_bgr) -> (is_live, confidence, reason)
detect_liveness(image) ==
  IF image.lap_var < LAP_VAR_MIN
    THEN [live |-> FALSE, confidence |-> 30, reason |-> "Image too blurry"]
  ELSE IF image.lap_var > LAP_VAR_MAX
    THEN [live |-> FALSE, confidence |-> 40,
          reason |-> "Image too sharp (printed photo?)"]
  ELSE IF image.face = NoFace
    THEN [live |-> FALSE, confidence |-> 20, reason |-> "No face detected"]
  ELSE IF image.face < LIVE_FACE_CONF
    THEN [live |-> FALSE, confidence |-> image.face,
          reason |-> "Low face detection confidence"]
  ELSE [live |-> TRUE, confidence |-> Max(LIVE_BASELINE, image.face),
        reason |-> "Live face detected"]

\* get_embedding raises ValueError when detect_face finds no face.
HasEmbedding(image) == image.face # NoFace

\* embedding.tobytes() of the 128 float64 of get_embedding.
EncodingOf(dir) == [size |-> ENCODING_BYTES, norm |-> 1, dir |-> dir]

\* Faulty variant of update_one: the filter is not applied.
update_all(store, user_id, encoding) ==
  [k \in 1..Len(store) |-> [store[k] EXCEPT !.faceEncoding = encoding]]

\* db.users.update_one({"_id": ObjectId(user_id)}, {"$set": ...}): the
\* document with that _id, if there is one, gets the encoding.
update_one(store, user_id, encoding) ==
  [k \in 1..Len(store) |->
     IF store[k]._id = user_id
       THEN [store[k] EXCEPT !.faceEncoding = encoding]
       ELSE store[k]]

\* An HTTPException of the handler: nothing was written.
Rejected(status, liveness, store) ==
  [status |-> status, liveness |-> liveness, used |-> <<>>,
   written |-> NoEncoding, users |-> store]

\* The end of both handlers, from the Cloudinary upload on: ObjectId() of
\* a malformed id and a failing update_one raise, and are answered 500.
Store(user_id, fault, liveness, used, encoding, store) ==
  IF user_id \notin ObjectIds \/ fault = "db"
    THEN Rejected(500, liveness, store)
    ELSE [status |-> 200, liveness |-> liveness, used |-> used,
          written |-> encoding,
          users |-> update_one(store, user_id, encoding)]

\* POST /register-face
register_face_endpoint(user_id, file, fault, store) ==
  IF ~file.decodable THEN Rejected(500, NoLiveness, store)
  ELSE LET liveness == detect_liveness(file)
       IN  IF ~liveness.live THEN Rejected(400, liveness, store)
           ELSE IF ~HasEmbedding(file) THEN Rejected(400, liveness, store)
           ELSE IF fault = "upload" THEN Rejected(500, liveness, store)
           ELSE Store(user_id, fault, liveness, <<1>>,
                      EncodingOf(file.dir), store)

\* if idx == 0: the sample the liveness gate and the upload are applied to.
FirstSample(idx) == idx = 1

RECURSIVE BatchLoop(_, _, _, _)
\* for idx, f in enumerate(files): the status that ends the loop early (0
\* when it runs to its end) and the samples in all_embeddings.
BatchLoop(files, idx, used, fault) ==
  IF idx > Len(files) THEN [status |-> 0, used |-> used]
  ELSE LET f == files[idx]
       IN  IF ~f.decodable THEN [status |-> 500, used |-> used]
           ELSE IF FirstSample(idx) /\ ~detect_liveness(f).live
             THEN [status |-> 400, used |-> used]
           ELSE IF ~HasEmbedding(f)
             THEN BatchLoop(files, idx + 1, used, fault)
           ELSE IF FirstSample(idx) /\ fault = "upload"
             THEN [status |-> 500, used |-> Append(used, idx)]
           ELSE BatchLoop(files, idx + 1, Append(used, idx), fault)

RECURSIVE SumDirs(_, _)
SumDirs(files, used) ==
  IF used = <<>> THEN 0
  ELSE files[Head(used)].dir + SumDirs(files, Tail(used))

\* mean_emb = np.mean(all_embeddings, axis=0), normalised
MeanEncoding(files, used) == EncodingOf(SumDirs(files, used) \div Len(used))

\* POST /batch-register-face
batch_register_face_endpoint(user_id, files, fault, store) ==
  IF Len(files) < 2 THEN Rejected(400, NoLiveness, store)
  ELSE LET liveness == IF files[1].decodable
                         THEN detect_liveness(files[1]) ELSE NoLiveness
           loop     == BatchLoop(files, 1, <<>>, fault)
       IN  IF loop.status # 0 THEN Rejected(loop.status, liveness, store)
           ELSE IF loop.used = <<>> THEN Rejected(400, liveness, store)
           ELSE Store(user_id, fault, liveness, loop.used,
                      MeanEncoding(files, loop.used), store)

\* The request is answered: the response, and the store the handler
\* leaves.
Answer(r) ==
  /\ eresp = NoEnroll
  /\ eresp' = [status |-> r.status, liveness |-> r.liveness,
                used |-> r.used, written |-> r.written]
  /\ users' = r.users
  /\ UNCHANGED <<ereq, req, resp>>

RegisterFace ==
  /\ ereq.endpoint = "register-face"
  /\ Answer(register_face_endpoint(ereq.user_id, ereq.files[1], ereq.fault,
                                   users))

BatchRegisterFace ==
  /\ ereq.endpoint = "batch-register-face"
  /\ Answer(batch_register_face_endpoint(ereq.user_id, ereq.files,
                                         ereq.fault, users))

\* Any enrollment request against a store whose users have a sound
\* encoding or none.
InitEnroll ==
  /\ users \in {<<[_id |-> "u1", faceEncoding |-> e1],
                   [_id |-> "u2", faceEncoding |-> e2]>> :
                   e1 \in {NoEncoding, EncodingOf(2)},
                   e2 \in {NoEncoding, EncodingOf(2)}}
  /\ ereq \in
       {[endpoint |-> "register-face", user_id |-> u, files |-> <<f>>,
         fault |-> x] : u \in EnrollIds, f \in Images, x \in Faults}
         \cup {[endpoint |-> "batch-register-face", user_id |-> u,
                files |-> fs, fault |-> x] :
                  u \in EnrollIds, fs \in SeqsUpTo(Images, MaxFiles),
                  x \in Faults}
  /\ eresp = NoEnroll
  /\ req = [faces |-> <<>>, expected_user_ids |-> NoList]
  /\ resp = NoResp

EnrollIdle ==
  /\ ereq = [endpoint |-> "none", user_id |-> "none", files |-> <<>>,
             fault |-> "none"]
  /\ eresp = NoEnroll

InitMatch ==
  /\ users \in {<<[_id |-> "u1", faceEncoding |-> e1],
                   [_id |-> "u2", faceEncoding |-> e2]>> :
                   e1 \in Encodings, e2 \in Encodings}
  /\ req \in {[faces |-> f, expected_user_ids |-> a] :
                 f \in SeqsUpTo(Faces, MaxFaces), a \in AllowLists}
  /\ resp = NoResp

MatchIdle ==
  /\ users = <<[_id |-> "u1", faceEncoding |-> NoEncoding],
               [_id |-> "u2", faceEncoding |-> NoEncoding]>>
  /\ req = [faces |-> <<>>, expected_user_ids |-> NoList]
  /\ resp = NoResp

InitDedup ==
  /\ now = 0
  /\ last_event_time = [s \in StudentIds |-> NoRecord]
  /\ threads = <<>>
  /\ pe = NoCall
  /\ lastEmit = [s \in StudentIds |-> [e \in EventTypes |-> NoTime]]
  /\ sent = 0

TrackerIdle ==
  /\ K = DIRECTION_FRAMES
  /\ flip = FALSE
  /\ positions = [s \in StudentIds |-> <<>>]
  /\ upd = NoUpdate
  /\ ncalls = [s \in StudentIds |-> 0]

vars == <<dedupVars, trackerVars, matchVars, monitorVars, enrollVars>>

\* The cooldown alone: checks for any mix of students and event types as
\* time passes, and the dispatch threads they start.
InitCooldown == InitDedup /\ TrackerIdle /\ MatchIdle /\ MonitorIdle
  /\ EnrollIdle

NextDedup ==
  \/ Tick /\ UNCHANGED <<trackerVars, matchVars, monitorVars, enrollVars>>
  \/ PostEvent /\ UNCHANGED <<trackerVars, matchVars, monitorVars, enrollVars>>
  \/ PostThread /\ UNCHANGED <<trackerVars, matchVars, monitorVars, enrollVars>>

SpecDedup == InitCooldown /\ [][NextDedup]_vars

\* The tracker alone, for every capacity and orientation.
NextTracker == Update /\ UNCHANGED <<dedupVars, matchVars, monitorVars, enrollVars>>

InitDirection == InitTracker /\ InitDedup /\ MatchIdle /\ MonitorIdle
  /\ EnrollIdle

SpecTracker == InitDirection /\ [][NextTracker]_vars

\* One identification request against any enrollment store.
NextMatch ==
  \/ IdentifyFace /\ UNCHANGED <<dedupVars, trackerVars, monitorVars, enrollVars>>
  \/ IdentifyMultipleFaces /\ UNCHANGED <<dedupVars, trackerVars, monitorVars, enrollVars>>
  \/ IdentifyGroup /\ UNCHANGED <<dedupVars, trackerVars, monitorVars, enrollVars>>

InitIdentify == InitMatch /\ InitDedup /\ TrackerIdle /\ MonitorIdle
  /\ EnrollIdle

SpecMatch == InitIdentify /\ [][NextMatch]_vars

\* One run of monitor with its dispatch threads, from the health probe on.
InitPipeline == InitMonitor /\ InitDedup /\ TrackerIdle /\ MatchIdle
  /\ EnrollIdle

LoopStep ==
  \/ Read
  \/ Backoff
  \/ Release
  \/ Reopen
  \/ Throttle
  \/ Identify
  \/ Process

NextMonitor ==
  \/ HealthCheck /\ UNCHANGED <<matchVars, enrollVars>>
  \/ OpenCamera /\ UNCHANGED <<matchVars, enrollVars>>
  \/ LoopStep /\ UNCHANGED <<matchVars, enrollVars>>
  \/ Stop /\ UNCHANGED <<matchVars, enrollVars>>
  \/ PostThread /\ UNCHANGED <<trackerVars, matchVars, monitorVars, enrollVars>>

SpecMonitor == InitPipeline /\ [][NextMonitor]_vars

\* The while loop from its first cap.read() on, after a start that found
\* the engine and the camera, when the loop is never held up for good:
\* monitor is a sequential program, so a statement that can run does run.
InitLoop ==
  /\ pc = "read"
  /\ exit_code = -1
  /\ health = [status |-> "ok", embeddingDim |-> EMBEDDING_DIM]
  /\ clock = FRAME_INTERVAL_MS
  /\ last_check = 0
  /\ cap = 1
  /\ held = {1}
  /\ reads = 0
  /\ todo = <<>>
  /\ calls = NoCalls

InitRunning == InitLoop /\ InitDedup /\ TrackerIdle /\ MatchIdle
  /\ EnrollIdle

NextLoop ==
  \/ LoopStep /\ UNCHANGED <<matchVars, enrollVars>>
  \/ Stop /\ UNCHANGED <<matchVars, enrollVars>>
  \/ PostThread /\ UNCHANGED <<trackerVars, matchVars, monitorVars, enrollVars>>

SpecMonitorLive ==
  InitRunning /\ [][NextLoop]_vars
    /\ WF_vars(LoopStep /\ UNCHANGED <<matchVars, enrollVars>>)

\* One enrollment request against a small store.
InitEnrollment ==
  InitEnroll /\ InitDedup /\ TrackerIdle /\ MonitorIdle

NextEnroll ==
  \/ RegisterFace /\ UNCHANGED <<dedupVars, trackerVars, monitorVars>>
  \/ BatchRegisterFace /\ UNCHANGED <<dedupVars, trackerVars, monitorVars>>

SpecEnroll == InitEnrollment /\ [][NextEnroll]_vars

\* ===================================================================
\* Claims
\* ===================================================================

\* C1 (as claimed): a check for (identity, eventType) is suppressed whenever
\* a non-suppressed emission of that same pair was recorded less than
\* COOLDOWN_SECS before it, also when an event of the other type was emitted
\* for that identity in between.
C1_SuppressedWithinCooldown ==
  (pe # NoCall /\ pe.prev # NoTime /\ pe.at - pe.prev < COOLDOWN_SECS)
    => pe.suppressed

\* C2: a suppressed check for (identity, eventType) always has an emission
\* of that very pair less than COOLDOWN_SECS before it; an emission of the
\* other type for the identity, however recent, never suppresses it.
C2_TypesIndependent ==
  (pe # NoCall /\ pe.suppressed)
    => /\ pe.prev # NoTime
       /\ pe.at - pe.prev < COOLDOWN_SECS

\* C2 witness: an EXIT check let through at the very instant an ENTRY of
\* the same identity was emitted.
C2_Witness ==
  /\ pe.type = "EXIT" /\ ~pe.suppressed
  /\ lastEmit[pe.id]["ENTRY"] = pe.at

\* C3: a check made COOLDOWN_SECS or more after the last emission of its
\* pair is not suppressed; a suppressed check leaves the cooldown table
\* unchanged; a non-suppressed one writes (type, now) for its identity, and
\* nothing else ever changes the table.
C3_CooldownRecord ==
  [][/\ \A s \in StudentIds, e \in EventTypes :
          post_event(s, e) =>
            /\ (lastEmit[s][e] # NoTime
                 /\ now - lastEmit[s][e] >= COOLDOWN_SECS
                   => ~pe'.suppressed)
            /\ (pe'.suppressed => last_event_time' = last_event_time)
            /\ (~pe'.suppressed =>
                   last_event_time' =
                     [last_event_time EXCEPT
                        ![s] = [type |-> e, ts |-> now]])
     /\ (last_event_time' # last_event_time =>
           /\ ~pe'.suppressed
           /\ last_event_time'[pe'.id] = [type |-> pe'.type, ts |-> now]
           /\ \A s \in StudentIds \ {pe'.id} :
                 last_event_time'[s] = last_event_time[s])
    ]_vars

\* C3 witness: a check let through exactly COOLDOWN_SECS after the previous
\* emission of its pair.
C3_Witness ==
  /\ pe # NoCall /\ ~pe.suppressed
  /\ pe.prev # NoTime /\ pe.at - pe.prev = COOLDOWN_SECS

\* C4: for any capacity K >= 1, update returns no decision for the first
\* K - 1 calls made for an identity, whatever the positions.
C4_NoDecisionWhileCollecting ==
  (upd # NoUpdate /\ ncalls[upd.id] < K) => upd.ret = "None"

\* C4 witness: the (K-1)-th call for an identity, K = 3, spanning the whole
\* frame and still undecided.
C4_Witness ==
  /\ K = DIRECTION_FRAMES
  /\ upd.id = "s1" /\ ncalls["s1"] = K - 1
  /\ upd.win = <<10, 90>> /\ upd.ret = "None"

\* C5: when the window holds K samples and |newest - oldest| is at least
\* the minimum displacement, update returns ENTRY if (newest - oldest > 0)
\* differs from flip and EXIT otherwise, and empties the window; so
\* [0.1, 0.5, 0.9] gives ENTRY, the reverse EXIT, and flip swaps both.
C5_DecisionOnDisplacement ==
  /\ (upd # NoUpdate /\ Len(upd.win) = K
        /\ Abs(upd.win[K] - upd.win[1]) >= MIN_DISPLACEMENT)
       => /\ upd.ret = IF (upd.win[K] - upd.win[1] > 0) # flip
                          THEN "ENTRY" ELSE "EXIT"
          /\ positions[upd.id] = <<>>
  /\ (K = 3 /\ upd.win = <<10, 50, 90>>)
       => upd.ret = IF flip THEN "EXIT" ELSE "ENTRY"
  /\ (K = 3 /\ upd.win = <<90, 50, 10>>)
       => upd.ret = IF flip THEN "ENTRY" ELSE "EXIT"

\* C5 witness: the left-to-right pass under flip, decided as EXIT, window
\* emptied.
C5_Witness ==
  /\ K = 3 /\ flip
  /\ upd.win = <<10, 50, 90>> /\ upd.ret = "EXIT"
  /\ positions[upd.id] = <<>>

\* C6: when the window holds K samples and |newest - oldest| is below the
\* minimum displacement, update returns no decision and keeps the window
\* (its K most recent samples); an update that finds the window full
\* evicts only the oldest sample.
C6_NoDecisionKeepsSliding ==
  [][\A s \in StudentIds :
       (upd'.id = s /\ <<upd, positions>>' # <<upd, positions>>) =>
         LET win == upd'.win
         IN  /\ (Len(win) = K
                  /\ Abs(win[K] - win[1]) < MIN_DISPLACEMENT)
                   => /\ upd'.ret = "None"
                      /\ positions'[s] = win
             /\ Len(positions[s]) = K
                   => /\ Len(win) = K
                      /\ \A i \in 1..(K - 1) : win[i] = positions[s][i + 1]
    ]_vars

\* C6 witness: [0.40, 0.44, 0.46] undecided, the window kept as it is.
C6_Witness ==
  /\ K = 3 /\ upd.ret = "None"
  /\ upd.win = <<40, 44, 46>> /\ positions[upd.id] = upd.win

\* ------------------------------------------------------------ MatchEngine
\* The candidate pool of the answered request, the faces it compared with
\* the pool, and the candidates of the pool that reach the threshold for a
\* face.
PoolOf ==
  IF resp.endpoint = "identify-face"
    THEN FindUsers(NoList) ELSE FindUsers(req.expected_user_ids)

Probed ==
  IF resp.endpoint = "identify-face"
    THEN {i \in {resp.probe} : i # 0 /\ req.faces[i].ok}
    ELSE {i \in 1..Len(req.faces) : req.faces[i].ok}

Comparable(u, f) ==
  /\ u.faceEncoding.size = ENCODING_BYTES
  /\ u.faceEncoding.norm # 0
  /\ f.norm # 0

Similarity(u, f) == Cosine(u.faceEncoding.dir, f.dir)

Reaching(i) ==
  {k \in 1..Len(PoolOf) :
     /\ Comparable(PoolOf[k], req.faces[i])
     /\ Similarity(PoolOf[k], req.faces[i]) >= COSINE_THRESHOLD}

MatchesOf(i) ==
  {n \in 1..Len(resp.matches) : resp.matches[n].box = i}

\* C7: a probe compared with a pool gets no match iff no candidate of the
\* pool has similarity >= COSINE_THRESHOLD (equality is accepted);
\* otherwise it gets the candidate that comes first in pool order among
\* those of maximal similarity, with that similarity as confidence.
C7_BestMatchFirstAmongMax ==
  (resp # NoResp /\ resp.status = 200) =>
    /\ \A i \in Probed :
         IF Reaching(i) = {}
           THEN MatchesOf(i) = {}
           ELSE LET top  == CHOOSE k \in Reaching(i) :
                               \A j \in Reaching(i) :
                                  Similarity(PoolOf[j], req.faces[i])
                                    <= Similarity(PoolOf[k], req.faces[i])
                    best == Similarity(PoolOf[top], req.faces[i])
                    first == CHOOSE k \in Reaching(i) :
                                /\ Similarity(PoolOf[k], req.faces[i]) = best
                                /\ \A j \in Reaching(i) :
                                      Similarity(PoolOf[j], req.faces[i]) = best
                                        => k <= j
                IN  /\ Cardinality(MatchesOf(i)) = 1
                    /\ \A n \in MatchesOf(i) :
                          /\ resp.matches[n].userId = PoolOf[first]._id
                          /\ resp.matches[n].confidence = best
    /\ \A n \in 1..Len(resp.matches) : resp.matches[n].box \in Probed

\* C7 witness: two candidates tie at exactly the threshold and the first
\* of the pool is returned.
C7_Witness ==
  /\ resp.endpoint = "identify-group"
  /\ Len(req.faces) = 1 /\ Reaching(1) = {1, 2}
  /\ Similarity(PoolOf[1], req.faces[1]) = COSINE_THRESHOLD
  /\ Similarity(PoolOf[2], req.faces[1]) = COSINE_THRESHOLD
  /\ resp.matches = <<[userId |-> "u1", confidence |-> COSINE_THRESHOLD,
                       box |-> 1]>>

\* C8 (as claimed): group identification of one image never returns more
\* matches than there are identities in the candidate pool.
C8_AtMostPoolSize ==
  resp.endpoint \in {"identify-group", "identify-multiple-faces"}
    => Len(resp.matches) <= Len(PoolOf)

\* C9 (as claimed): when the request carries an allow-list, every identity
\* in the returned matches is an entry of that list, whatever its entries
\* are; with no allow-list the pool is all enrolled identities.
CarriesAllowList ==
  req.expected_user_ids # NoList /\ req.expected_user_ids # <<"">>

Enrolled ==
  {users[k]._id : k \in {j \in 1..Len(users) :
                           users[j].faceEncoding # NoEncoding}}

C9_MatchesWithinAllowList ==
  resp.endpoint \in {"identify-group", "identify-multiple-faces"} =>
    /\ CarriesAllowList =>
         \A n \in 1..Len(resp.matches) :
            \E t \in 1..Len(req.expected_user_ids) :
               req.expected_user_ids[t] = resp.matches[n].userId
    /\ ~CarriesAllowList =>
         {PoolOf[k]._id : k \in 1..Len(PoolOf)} = Enrolled

\* C10: a candidate stored with the wrong size or with zero norm, and a
\* probe of zero norm, never appear in a match; the other candidates are
\* still compared, so a probe that some sound candidate reaches is matched,
\* and the request only fails when the embedding of the probe itself
\* cannot be extracted in /identify-face.
C10_DataFaultsSkipTheItem ==
  resp # NoResp =>
    /\ \A n \in 1..Len(resp.matches) :
         \E k \in 1..Len(PoolOf) :
            /\ PoolOf[k]._id = resp.matches[n].userId
            /\ Comparable(PoolOf[k], req.faces[resp.matches[n].box])
    /\ \A i \in Probed : Reaching(i) # {} => MatchesOf(i) # {}
    /\ resp.status # 200 =>
         /\ resp.endpoint = "identify-face"
         /\ resp.probe # 0 /\ ~req.faces[resp.probe].ok

\* C10 witness: the first candidate of the pool is stored with the wrong
\* size, the second is sound and is the one matched.
C10_Witness ==
  /\ resp.endpoint = "identify-group" /\ resp.status = 200
  /\ Len(PoolOf) = 2
  /\ PoolOf[1].faceEncoding.size # ENCODING_BYTES
  /\ Len(resp.matches) = 1 /\ resp.matches[1].userId = PoolOf[2]._id

\* C11: any two consecutive identification calls are started at least
\* FRAME_INTERVAL_MS apart, and a frame that reaches the call does so no
\* sooner than that after the call before it; a frame that comes sooner
\* is dropped by the throttle.
C11_CallsAtLeastIntervalApart ==
  /\ calls.prev # NoTime => calls.at - calls.prev >= FRAME_INTERVAL_MS
  /\ pc = "identify" /\ calls.at # NoTime =>
       clock - calls.at >= FRAME_INTERVAL_MS

\* C11 witness: three frames were read, the second was dropped, and the
\* third started the second call exactly FRAME_INTERVAL_MS after the first.
C11_Witness ==
  /\ reads = 3 /\ cap = 1
  /\ calls.prev # NoTime /\ calls.at = clock
  /\ calls.at - calls.prev = FRAME_INTERVAL_MS

Stopped == pc = "done" /\ exit_code = 0

\* C12: a failed read does not end the run: unless the stop signal comes,
\* the loop backs off, reopens the source and reads again; and when a
\* reopened camera has delivered a frame and has one more to deliver, the
\* loop gets to an identification call, unless it is stopped or the
\* camera fails again first.
C12_ReadFailureRecovers ==
  /\ (pc = "backoff") ~> (pc = "read" \/ Stopped)
  /\ (pc = "throttle" /\ cap > 1 /\ reads < MaxReads)
        ~> (pc = "identify" \/ pc = "backoff" \/ Stopped)

\* C12 witness: after two failed reads in a row the third VideoCapture
\* delivered a frame and the call for it is about to be made.
C12_Witness ==
  /\ pc = "identify" /\ cap = 3 /\ reads = 1

\* C13: no failure of an identification call (an exception, a timeout, a
\* response that is not OK, a body that cannot be decoded or is malformed)
\* and no failure of a call to the event sink ends the loop: the run ends
\* on the stop signal only.
C13_FailuresNeverEndTheLoop ==
  pc = "done" => Stopped

\* C14: however the loop is left, by the stop signal or by an error raised
\* inside it, no VideoCapture holds the camera afterwards, and the loop is
\* left in no other way.
C14_CameraReleasedOnExit ==
  pc = "done" =>
    /\ held = {}
    /\ \/ exit_code = 0
       \/ exit_code = 1 /\ todo # <<>> /\ Head(todo).shape # "match"

\* C14 witness: the loop was left by an error while the second
\* VideoCapture of the run was the one in use.
C14_Witness ==
  pc = "done" /\ exit_code = 1 /\ cap = 2

Refused ==
  /\ pc = "exit" /\ exit_code > 0
  /\ calls = NoCalls /\ upd = NoUpdate /\ pe = NoCall /\ threads = <<>>

\* C15: when the /health probe raises, or the camera does not open at the
\* start, monitor exits with a non-zero status at once, before any
\* identification call, tracker update or dispatch, and does nothing
\* after that.
C15_RefusesToStart ==
  [][/\ pc # "exit"
     /\ pc = "health" /\ health'.status = "unreachable" => Refused'
     /\ pc = "open" /\ (cap + 1) \notin held' => Refused']_vars

\* C15 witness: the engine answered the probe, the camera did not open,
\* and the process has exited.
C15_Witness ==
  pc = "exit" /\ health.status = "ok" /\ cap = 1 /\ held = {}

\* C16: a check that is not suppressed starts exactly one _post thread for
\* its event and returns while that thread has still to run; a suppressed
\* check starts none; a thread ends after one request to the backend,
\* whatever came of it, and touches nothing else.
C16_OneDispatchOneRequest ==
  [][/\ \A s \in StudentIds, e \in EventTypes :
          post_event(s, e) =>
            threads' = IF pe'.suppressed
                         THEN threads
                         ELSE Append(threads, [studentId |-> s, type |-> e])
     /\ Len(threads') < Len(threads) =>
          /\ Len(threads') = Len(threads) - 1
          /\ sent' = 1
          /\ <<now, last_event_time, pe, lastEmit>>' =
               <<now, last_event_time, pe, lastEmit>>
     /\ sent' # sent => Len(threads') < Len(threads)
    ]_vars

\* C16 witness: one thread has ended after its one request while the
\* thread of the latest event has still to run.
C16_Witness ==
  /\ sent = 1 /\ ~pe.suppressed /\ pe.at = now
  /\ threads = <<[studentId |-> pe.id, type |-> pe.type]>>

\* C17: answering an identification request (/identify-face,
\* /identify-multiple-faces, /identify-group) leaves every user record and
\* stored encoding as it was, whatever the store, the image and the
\* allow-list, and whether the request matched, matched nothing or failed.
C17_IdentificationReadsOnly ==
  [][resp' # resp => users' = users]_vars

\* C17 witness: /identify-multiple-faces has matched both faces of its
\* image against a store in which both users have a sound encoding.
C17_Witness ==
  /\ resp.endpoint = "identify-multiple-faces" /\ resp.status = 200
  /\ Len(req.faces) = 2 /\ Len(resp.matches) = 2
  /\ \A k \in 1..Len(users) :
        users[k].faceEncoding.size = ENCODING_BYTES
          /\ users[k].faceEncoding.norm = 1

\* C18: no match is fed to the tracker and no event is checked for
\* dispatch unless the /health probe reported an embedding dimensionality
\* compatible with the one the pipeline expects.
C18_DimensionCheckedBeforeMatches ==
  (upd # NoUpdate \/ pe # NoCall) =>
    health.status = "ok" /\ health.embeddingDim = EMBEDDING_DIM

\* C19: a window never holds more than K samples; an update appends its
\* sample to the window of its identity, evicting exactly the oldest one
\* when the window was full, and leaves the window so or, when it returns
\* a decision, empty; a window is emptied by nothing else, and the windows
\* of the other identities stay as they are.
C19_WindowOfTheLastK ==
  [][\A s \in StudentIds :
       /\ Len(positions'[s]) <= K
       /\ s # upd'.id => positions'[s] = positions[s]
       /\ (s = upd'.id /\ <<upd, positions>>' # <<upd, positions>>) =>
            LET win  == upd'.win
                all  == Append(positions[s], win[Len(win)])
                n    == Len(all)
                keep == IF n > K THEN K ELSE n
            IN  /\ n <= K + 1
                /\ win = [i \in 1..keep |-> all[n - keep + i]]
                /\ positions'[s] =
                     IF upd'.ret = "None" THEN win ELSE <<>>
       /\ (positions[s] # <<>> /\ positions'[s] = <<>>) =>
            upd'.id = s /\ upd'.ret # "None"
    ]_vars

\* C19 witness: the full window of s1 has slid by one sample, oldest out,
\* while s2 keeps the two samples it has.
C19_Witness ==
  /\ K = 3 /\ upd.id = "s1" /\ upd.ret = "None"
  /\ upd.win = <<44, 46, 50>> /\ positions["s1"] = upd.win
  /\ ncalls["s1"] = K /\ positions["s2"] = <<10, 90>>

\* The round of the for loop that is about to run feeds the tracker: its
\* entry is a match at or above the confidence floor, taken from the
\* answer to the call made for the frame last accepted.
FeedsTracker ==
  /\ pc = "process" /\ calls.at = last_check
  /\ Head(todo).shape = "match"
  /\ Head(todo).confidence >= CONFIDENCE_THRESH

\* C20: the tracker is updated only for a match at or above the floor of
\* the frame just identified; the cooldown check is made only for the
\* identity of that match and the decision that update just returned for
\* it; a thread is started only for that event and only when the check
\* let it through; and the round of a match below the floor changes
\* neither the windows nor the cooldown table.
C20_IdentifyTrackCheckDispatch ==
  [][/\ <<upd, positions>>' # <<upd, positions>> =>
          FeedsTracker /\ upd'.id = Head(todo).userId
     /\ <<pe, last_event_time>>' # <<pe, last_event_time>> =>
          /\ FeedsTracker /\ upd'.id = Head(todo).userId
          /\ <<upd, positions>>' # <<upd, positions>>
          /\ upd'.ret # "None"
          /\ pe'.id = upd'.id /\ pe'.type = upd'.ret
     /\ Len(threads') > Len(threads) =>
          /\ FeedsTracker /\ upd'.ret # "None" /\ ~pe'.suppressed
          /\ threads' = Append(threads, [studentId |-> Head(todo).userId,
                                         type |-> upd'.ret])
     /\ (pc = "process" /\ todo' # todo
          /\ Head(todo).confidence < CONFIDENCE_THRESH) =>
          /\ positions' = positions
          /\ last_event_time' = last_event_time
          /\ threads' = threads
    ]_vars

\* C20 witness: two frames of s1 moving right gave ENTRY, the check let
\* it through and its thread is in flight.
C20_Witness ==
  /\ upd.id = "s1" /\ upd.win = <<10, 10, 90>> /\ upd.ret = "ENTRY"
  /\ pe.id = "s1" /\ pe.type = "ENTRY" /\ ~pe.suppressed
  /\ threads = <<[studentId |-> "s1", type |-> "ENTRY"]>>
  /\ positions["s1"] = <<>>

\* ------------------------------------------------------------- enrollment
\* The image the liveness gate was run on: the first file of the request.
Gated == ereq.files[1]

\* C21: the liveness gate passes an image exactly when the variance of its
\* Laplacian is within [30, 8000], a face is detected and the confidence
\* of that face is at least 0.7; the reason reported is that of the first
\* of these checks that fails, in this order; on a pass the confidence
\* returned is max(0.85, detector confidence); and every confidence
\* returned is within [0, 1].
C21_LivenessGate ==
  eresp.liveness # NoLiveness =>
    LET r     == eresp.liveness
        sharp == Gated.lap_var >= LAP_VAR_MIN /\ Gated.lap_var <= LAP_VAR_MAX
        face  == Gated.face # NoFace
        sure  == Gated.face >= LIVE_FACE_CONF
    IN  /\ r.live <=> (sharp /\ face /\ sure)
        /\ r.reason =
             IF Gated.lap_var < LAP_VAR_MIN THEN "Image too blurry"
             ELSE IF Gated.lap_var > LAP_VAR_MAX
               THEN "Image too sharp (printed photo?)"
             ELSE IF ~face THEN "No face detected"
             ELSE IF ~sure THEN "Low face detection confidence"
             ELSE "Live face detected"
        /\ r.live => r.confidence = Max(LIVE_BASELINE, Gated.face)
        /\ r.confidence >= 0 /\ r.confidence <= 100

\* C21 witness: an image with a confidently detected face, rejected for a
\* variance just above the ceiling.
C21_Witness ==
  /\ eresp.status = 400 /\ ~eresp.liveness.live
  /\ Gated.lap_var = LAP_VAR_MAX + 1 /\ Gated.face >= LIVE_FACE_CONF
  /\ eresp.liveness.reason = "Image too sharp (printed photo?)"

\* C22: an enrollment request that is not answered with success (liveness
\* rejected, no face, fewer than two samples, an unreadable file, a failing
\* upload, a malformed id, a failing write) leaves every stored encoding
\* as it was; one answered with success changes at most the record of the
\* user it names.
C22_EnrollmentReplacesOneRecord ==
  [][eresp' # eresp =>
       /\ Len(users') = Len(users)
       /\ eresp'.status # 200 => users' = users
       /\ \A k \in 1..Len(users) :
             users[k]._id # ereq.user_id => users'[k] = users[k]
    ]_vars

\* C22 witness: a batch enrollment for u1 was rejected by the liveness
\* gate, and the encodings u1 and u2 had are still in the store.
C22_Witness ==
  /\ ereq.endpoint = "batch-register-face" /\ ereq.user_id = "u1"
  /\ eresp.status = 400 /\ eresp.liveness # NoLiveness
  /\ ~eresp.liveness.live
  /\ \A k \in 1..Len(users) : users[k].faceEncoding = EncodingOf(2)

\* An entry of a matches list that the for loop passes to the tracker.
Feeds(m) == m.shape = "match" /\ m.confidence >= CONFIDENCE_THRESH

\* C23: once a match of a frame has put a sample into the window of an
\* identity, no later match of the same frame puts another one into it,
\* so the K samples of a decision come from K frames.
C23_OneSamplePerFrame ==
  [][(FeedsTracker /\ <<upd, positions>>' # <<upd, positions>>) =>
       \A j \in 1..Len(todo') :
          Feeds(todo'[j]) => todo'[j].userId # Head(todo).userId
    ]_vars

\* C24: the cooldown record of an event is written in the call that starts
\* its thread; the end of a thread, whether the backend accepted the
\* request, rejected it or was not reached, leaves the cooldown table as
\* it is; and while the record of an event stands, less than
\* COOLDOWN_SECS old, a repeat of that event is suppressed and starts no
\* thread.
C24_RecordStandsWhateverTheDispatch ==
  [][/\ Len(threads') < Len(threads) =>
          last_event_time' = last_event_time
     /\ \A s \in StudentIds, e \in EventTypes :
          post_event(s, e) =>
            /\ Len(threads') > Len(threads) =>
                 last_event_time'[s] = [type |-> e, ts |-> now]
            /\ (last_event_time[s].type = e
                  /\ now - last_event_time[s].ts < COOLDOWN_SECS) =>
                 pe'.suppressed /\ threads' = threads
    ]_vars

\* C24 witness: the thread of an event has ended, and a repeat of the
\* event later within the cooldown was suppressed, with nothing in flight.
C24_Witness ==
  /\ sent = 1 /\ threads = <<>>
  /\ pe.suppressed /\ pe.at > pe.prev
  /\ last_event_time[pe.id] = [type |-> pe.type, ts |-> pe.prev]

\* C25: at no point of a run does more than one VideoCapture hold the
\* camera, and the one that does is the one cap names.
C25_AtMostOneHandle ==
  Cardinality(held) <= 1 /\ held \subseteq {cap}

\* C25 witness: after two reconnects in a row the third VideoCapture is
\* the only one that holds the camera.
C25_Witness ==
  pc = "read" /\ cap = 3 /\ held = {3} /\ reads = 0

\* C26: when an enrollment request is answered with success, the store
\* holds for the user id of the request the encoding computed from it.
C26_SuccessMeansStored ==
  eresp.status = 200 =>
    \E k \in 1..Len(users) :
       users[k]._id = ereq.user_id /\ users[k].faceEncoding = eresp.written

\* C27: every sample that went into the encoding of a successful
\* enrollment passes the liveness gate.
C27_EverySampleGated ==
  eresp.status = 200 =>
    \A i \in 1..Len(eresp.used) :
       detect_liveness(ereq.files[eresp.used[i]]).live

====
